---- MODULE Spec2Model ----
(***************************************************************************)
(* Model of the LibrIA Telegram bot worker                                 *)
(* (src/libria-telegram-bot/src/index.js).                                 *)
(*                                                                         *)
(* Strings are sequences of one-character strings.  The worker's requests  *)
(* are handled concurrently by the platform; a webhook request yields at   *)
(* its awaits, so it is modelled as a sequence of steps (receive, store    *)
(* write, notification), each of which is atomic, and lookups, other       *)
(* requests and the passage of time interleave with these steps.  The KV   *)
(* namespace and the Telegram API are the environment: a put or a fetch    *)
(* either completes or throws.  Under Spec the webhook requests themselves *)
(* are handled one at a time; under SpecTwo two of them are in flight at   *)
(* once and their steps interleave.                                        *)
(***************************************************************************)
EXTENDS Integers, Sequences, FiniteSets, TLC

VARIABLES kv, now, ticks, sent, slots, nreq, last, issued

vars == <<kv, now, ticks, sent, slots, nreq, last, issued>>

(***************************************************************************)
(* Bounds of the exploration.                                              *)
(***************************************************************************)
MaxWebhooks == 1
MaxTicks == 1

(***************************************************************************)
(* Program constants.                                                      *)
(***************************************************************************)
\* variant: the TTL written in milliseconds
ExpirationTtlMillis == 600 * 1000

ExpirationTtl == 600
DigestBytes == 32
FirmaLen == 8

(***************************************************************************)
(* Characters and strings.                                                 *)
(***************************************************************************)
CharTable ==
  << "0", "1", "2", "3", "4", "5", "6", "7", "8", "9",
     "a", "b", "c", "d", "e", "f", "A", "B", "C", "D", "E", "F",
     " ", "/", "s", "t", "r", "S", "T", "R", ":" >>

CharCode(c) == CHOOSE i \in 1..Len(CharTable) : CharTable[i] = c

\* String.prototype.toUpperCase, one character
UpperChar(c) ==
  CASE c = "a" -> "A" [] c = "b" -> "B" [] c = "c" -> "C"
    [] c = "d" -> "D" [] c = "e" -> "E" [] c = "f" -> "F"
    [] c = "s" -> "S" [] c = "t" -> "T" [] c = "r" -> "R"
    [] c = "h" -> "H" [] c = "i" -> "I"
    [] OTHER -> c

\* String.prototype.toLowerCase, one character (used to build inputs)
LowerChar(c) ==
  CASE c = "A" -> "a" [] c = "B" -> "b" [] c = "C" -> "c"
    [] c = "D" -> "d" [] c = "E" -> "e" [] c = "F" -> "f"
    [] OTHER -> c

toUpperCase(s) == [i \in 1..Len(s) |-> UpperChar(s[i])]

toLowerCase(s) == [i \in 1..Len(s) |-> LowerChar(s[i])]

\* variant: String.prototype.includes in place of startsWith
includes(s, p) ==
  \E i \in 1..Len(s) : i + Len(p) - 1 <= Len(s) /\ SubSeq(s, i, i + Len(p) - 1) = p

\* String.prototype.startsWith
startsWith(s, p) == Len(s) >= Len(p) /\ SubSeq(s, 1, Len(p)) = p

\* String.prototype.substring(0, n)
substring0(s, n) == SubSeq(s, 1, IF n < Len(s) THEN n ELSE Len(s))

\* String.prototype.split(' '): the pieces between single spaces
RECURSIVE SplitFrom(_, _, _)
SplitFrom(s, i, cur) ==
  IF i > Len(s) THEN << cur >>
  ELSE IF s[i] = " " THEN << cur >> \o SplitFrom(s, i + 1, << >>)
  ELSE SplitFrom(s, i + 1, Append(cur, s[i]))

split(s) == SplitFrom(s, 1, << >>)

(***************************************************************************)
(* calcularFirma.  HMAC-SHA256 is abstracted by a deterministic keyed      *)
(* mixing function producing DigestBytes bytes; the hex rendering, the     *)
(* truncation and the upper-casing are the code's.                         *)
(***************************************************************************)
RECURSIVE Mix(_, _)
Mix(s, h) ==
  IF s = << >> THEN h
  ELSE Mix(Tail(s), (h * 31 + CharCode(Head(s))) % 65521)

\* crypto.subtle.sign('HMAC', key, message) as a byte array
hmacSign(secret, message) ==
  LET k == Mix(secret, 7)
      m == Mix(message, k + Len(message) + 1)
  IN  [i \in 1..DigestBytes |-> (m * (2 * i + 1) + k * i) % 256]

HexDigits == << "0", "1", "2", "3", "4", "5", "6", "7", "8", "9",
                "a", "b", "c", "d", "e", "f" >>

\* b.toString(16).padStart(2, '0')
toHex2(b) == << HexDigits[(b \div 16) + 1], HexDigits[(b % 16) + 1] >>

RECURSIVE join(_)
join(ss) == IF ss = << >> THEN << >> ELSE Head(ss) \o join(Tail(ss))

calcularFirma(codigo, secret) ==
  LET hashArray == hmacSign(secret, codigo)
      hashHex == join([i \in 1..Len(hashArray) |-> toHex2(hashArray[i])])
  IN  toUpperCase(substring0(hashHex, FirmaLen))

\* env.TELEGRAM_SECRET_KEY
TELEGRAM_SECRET_KEY == << "s", "3", "c", "r", "3", "t" >>

(***************************************************************************)
(* Inputs.                                                                 *)
(***************************************************************************)
StartCmd == << "/", "s", "t", "a", "r", "t" >>

\* the JavaScript value undefined, for a text and for a chat
NoText == << "undefined" >>
NoChat == 0

Chats == {1, 2}

\* what may follow the command in a text
Tails ==
  { << >>,
    << " " >>, << " ", " ", "a" >>,
    << " ", "a" >>, << " ", "A" >>, << " ", "B" >> }

\* message texts: the command followed by a tail, and some texts that do
\* not begin with the command
Texts ==
  {StartCmd \o r : r \in Tails}
    \cup { << "/", "s", "t", "a", "r" >>,
           << " " >> \o StartCmd \o << " ", "a" >> }

\* what request.json() yields: a parse failure, the JSON value null, an
\* update without a message, or an update with a message
Updates ==
  { [json |-> j, text |-> NoText, chat |-> NoChat] :
      j \in {"invalid", "null", "nomessage"} }
    \cup { [json |-> "message", text |-> t, chat |-> c] :
             t \in {x \in Texts : startsWith(x, StartCmd)}, c \in Chats }
    \cup { [json |-> "message", text |-> t, chat |-> 1] :
             t \in {x \in Texts : ~startsWith(x, StartCmd)} \cup {NoText} }
    \cup { [json |-> "message", text |-> StartCmd \o << " ", "a" >>, chat |-> NoChat] }

\* the activation codes the texts above can yield
Codigos ==
  {toUpperCase(split(t)[2]) :
     t \in {x \in Texts : startsWith(x, StartCmd) /\ Len(split(x)) >= 2}}

Firmas == {calcularFirma(c, TELEGRAM_SECRET_KEY) : c \in Codigos}

NoParam == << "null" >>

\* url.searchParams.get('codigo'): null, or a string.  The strings are the
\* activation codes and the verification codes, in upper and in lower case.
AllParams ==
  {NoParam}
    \cup {toLowerCase(c) : c \in Codigos} \cup Codigos
    \cup Firmas \cup {toLowerCase(f) : f \in Firmas}

\* the parameters of the lookups that are performed: no parameter, an empty
\* one, an activation code and its verification code in both cases
Params ==
  {NoParam, << >>}
    \cup {c \in AllParams : toUpperCase(c) = << "A" >>}
    \cup {c \in AllParams :
            toUpperCase(c) = calcularFirma(<< "A" >>, TELEGRAM_SECRET_KEY)}

Methods == {"GET", "POST"}
Paths == {"/webhook", "/get-chat-id"}

(***************************************************************************)
(* The KV namespace env.LIBRIA_KV: put with expirationTtl, get.            *)
(***************************************************************************)
KeyPrefix == << "c", "o", "d", "i", "g", "o", ":" >>

Null == << "null" >>

\* variant: a put drops every other key of the namespace
KVputClear(store, key, value, ttl, t) ==
  [k \in {key} |-> [value |-> value, expiration |-> t + ttl]]

\* variant: a put does not replace a value that has not expired
KVputKeepFirst(store, key, value, ttl, t) ==
  [k \in (DOMAIN store) \cup {key} |->
     IF k = key /\ ~(key \in DOMAIN store /\ store[key].expiration > t)
     THEN [value |-> value, expiration |-> t + ttl]
     ELSE store[k]]

KVput(store, key, value, ttl, t) ==
  [k \in (DOMAIN store) \cup {key} |->
     IF k = key THEN [value |-> value, expiration |-> t + ttl] ELSE store[k]]

KVget(store, key, t) ==
  IF key \in DOMAIN store /\ store[key].expiration > t
  THEN store[key].value
  ELSE Null

JSONstringify(o) == << "json", o >>
JSONparse(str) == str[2]

\* Date.now(), in milliseconds, of a clock that counts seconds
DateNow(t) == t * 1000

(***************************************************************************)
(* Responses and notifications.                                            *)
(***************************************************************************)
Response(body, status) == [status |-> status, body |-> body]

TextBody(str) == << "text", str >>
ErrorJson(str) == << "json", "error", str >>
ChatJson(chat_id, timestamp) == << "json", "chat_id", chat_id, "timestamp", timestamp >>

UsageText == << "usage" >>
ConfirmText(firma) == << "confirm", firma >>

\* the body sendTelegramMessage posts to the Telegram API
sendTelegramMessage(chatId, text, markdown) ==
  [chat_id |-> chatId, text |-> text, parse_mode |-> IF markdown THEN "Markdown" ELSE ""]

\* variant: the router looks at the path only
fetchByPath(method, path) ==
  IF path = "/webhook" THEN "handleTelegramWebhook"
  ELSE IF path = "/get-chat-id" THEN "handleGetChatId"
  ELSE "root"

\* the router of fetch
fetch(method, path) ==
  IF path = "/webhook" /\ method = "POST" THEN "handleTelegramWebhook"
  ELSE IF path = "/get-chat-id" /\ method = "GET" THEN "handleGetChatId"
  ELSE "root"

(***************************************************************************)
(* handleGetChatId: the response and the key it reads, for a query         *)
(* parameter and a store.                                                  *)
(***************************************************************************)
\* variant: the parameter is not upper-cased
GetChatIdKeyRaw(codigo) ==
  IF codigo = NoParam \/ codigo = << >> THEN Null
  ELSE KeyPrefix \o codigo

GetChatIdKey(codigo) ==
  IF codigo = NoParam \/ codigo = << >> THEN Null
  ELSE KeyPrefix \o toUpperCase(codigo)

\* variant: no not-found branch
handleGetChatIdNoCheck(store, t, codigo) ==
  IF codigo = NoParam \/ codigo = << >>
  THEN Response(ErrorJson("Falta parametro: codigo"), 400)
  ELSE LET data == KVget(store, GetChatIdKey(codigo), t)
       IN  IF data = Null
           THEN Response(ChatJson(NoChat, 0), 200)
           ELSE LET parsed == JSONparse(data)
                IN  Response(ChatJson(parsed.chat_id, parsed.timestamp), 200)

\* variant: only a missing parameter is rejected, an empty one is looked up
handleGetChatIdNullOnly(store, t, codigo) ==
  IF codigo = NoParam
  THEN Response(ErrorJson("Falta parametro: codigo"), 400)
  ELSE LET data == KVget(store, KeyPrefix \o toUpperCase(codigo), t)
       IN  IF data = Null
           THEN Response(ErrorJson("Codigo no encontrado"), 404)
           ELSE LET parsed == JSONparse(data)
                IN  Response(ChatJson(parsed.chat_id, parsed.timestamp), 200)

handleGetChatId(store, t, codigo) ==
  IF codigo = NoParam \/ codigo = << >>
  THEN Response(ErrorJson("Falta parametro: codigo"), 400)
  ELSE LET data == KVget(store, GetChatIdKey(codigo), t)
       IN  IF data = Null
           THEN Response(ErrorJson("Codigo no encontrado"), 404)
           ELSE LET parsed == JSONparse(data)
                IN  Response(ChatJson(parsed.chat_id, parsed.timestamp), 200)

(***************************************************************************)
(* State.                                                                  *)
(***************************************************************************)
\* the webhook requests in flight: one at a time, or two at once
Slots == {1}
AllSlots == {1, 2}

NoUpdate == [json |-> "nomessage", text |-> NoText, chat |-> NoChat]

IdleSlot ==
  [pc |-> "idle", update |-> NoUpdate, chatId |-> NoChat, codigo |-> << >>,
   firma |-> << >>, puts |-> 0, sends |-> 0]

NoLast ==
  [op |-> "none", method |-> "", path |-> "", update |-> NoUpdate,
   codigo |-> NoParam, status |-> 0, body |-> TextBody(""),
   puts |-> 0, sends |-> 0, read |-> Null, threw |-> ""]

Init ==
  /\ kv = << >>
  /\ now = 0
  /\ ticks = 0
  /\ sent = << >>
  /\ slots = [s \in AllSlots |-> IdleSlot]
  /\ nreq = 0
  /\ last = NoLast
  /\ issued = {}

\* the webhook handler returns, normally or from its catch block (threw
\* names what threw): the response is recorded and the slot freed
Return(s, slot, resp, threw) ==
  /\ last' = [op |-> "webhook", method |-> "POST", path |-> "/webhook",
              update |-> slot.update, codigo |-> NoParam,
              status |-> resp.status, body |-> resp.body,
              puts |-> slot.puts, sends |-> slot.sends, read |-> Null,
              threw |-> threw]
  /\ slots' = [slots EXCEPT ![s] = IdleSlot]

OkResponse == Response(TextBody("OK"), 200)

\* variant: the catch block answers as a success
SwallowedErrorResponse == Response(TextBody("OK"), 200)

ErrorResponse == Response(TextBody("Error"), 500)

(***************************************************************************)
(* handleTelegramWebhook, up to the end of calcularFirma: parse the body,  *)
(* filter the command, extract the code and compute the signature.         *)
(***************************************************************************)
\* variant: the activation code is not upper-cased
codigoRaw(parts) == parts[2]

\* parts[1].toUpperCase()
codigoOf(parts) == toUpperCase(parts[2])

Receive(s, u, hashThrows, limit) ==
  /\ slots[s].pc = "idle"
  /\ nreq < limit
  /\ nreq' = nreq + 1
  /\ LET slot == [IdleSlot EXCEPT !.update = u]
     IN  IF u.json = "invalid" \/ u.json = "null"
         THEN Return(s, slot, ErrorResponse, "parse")
         ELSE IF u.json = "nomessage" \/ u.text = NoText
                   \/ ~startsWith(u.text, StartCmd)
         THEN Return(s, slot, OkResponse, "")
         ELSE IF u.chat = NoChat
         THEN Return(s, slot, ErrorResponse, "parse")
         ELSE LET parts == split(u.text)
              IN  IF Len(parts) < 2
                  THEN /\ slots' = [slots EXCEPT ![s] =
                                      [slot EXCEPT !.pc = "usage", !.chatId = u.chat]]
                       /\ UNCHANGED last
                  ELSE IF hashThrows
                  THEN Return(s, slot, ErrorResponse, "hash")
                  ELSE LET codigo == codigoOf(parts)
                           firma == calcularFirma(codigo, TELEGRAM_SECRET_KEY)
                       IN  /\ slots' = [slots EXCEPT ![s] =
                                          [slot EXCEPT !.pc = "put",
                                                       !.chatId = u.chat,
                                                       !.codigo = codigo,
                                                       !.firma = firma]]
                           /\ UNCHANGED last
  /\ UNCHANGED <<kv, now, ticks, sent, issued>>

WebhookReceive(s, u, hashThrows) == Receive(s, u, hashThrows, MaxWebhooks)

(***************************************************************************)
(* env.LIBRIA_KV.put of the webhook handler, with the Date.now() of its    *)
(* argument.                                                               *)
(***************************************************************************)
\* variant: the key does not carry the activation code
PutKeyConstant(slot) == KeyPrefix

PutKey(slot) == KeyPrefix \o slot.codigo

PutValue(slot, t) ==
  JSONstringify([chat_id |-> slot.chatId, firma |-> slot.firma,
                 timestamp |-> DateNow(t)])

\* variant: the store write is left out
WebhookPutSkipped(s, throws) ==
  /\ slots[s].pc = "put"
  /\ IF throws
     THEN /\ Return(s, slots[s], ErrorResponse, "store")
     ELSE /\ slots' = [slots EXCEPT ![s].pc = "confirm"]
          /\ UNCHANGED last
  /\ UNCHANGED <<kv, issued, now, ticks, sent, nreq>>

WebhookPut(s, throws) ==
  /\ slots[s].pc = "put"
  /\ IF throws
     THEN /\ Return(s, slots[s], ErrorResponse, "store")
          /\ UNCHANGED <<kv, issued>>
     ELSE /\ kv' = KVput(kv, PutKey(slots[s]), PutValue(slots[s], now), ExpirationTtl, now)
          /\ issued' = issued \cup
                         {[text |-> slots[s].update.text,
                           key |-> PutKey(slots[s]), codigo |-> slots[s].codigo,
                           firma |-> slots[s].firma, chat_id |-> slots[s].chatId,
                           timestamp |-> DateNow(now),
                           at |-> now]}
          /\ slots' = [slots EXCEPT ![s].pc = "confirm", ![s].puts = @ + 1]
          /\ UNCHANGED last
  /\ UNCHANGED <<now, ticks, sent, nreq>>

\* variant: a failed notification removes the record written before it
WebhookSendRollback(s, throws) ==
  /\ slots[s].pc \in {"usage", "confirm"}
  /\ IF throws
     THEN /\ Return(s, slots[s], ErrorResponse, "network")
          /\ kv' = [k \in (DOMAIN kv) \ {PutKey(slots[s])} |-> kv[k]]
          /\ UNCHANGED sent
     ELSE LET msg == IF slots[s].pc = "usage"
                     THEN sendTelegramMessage(slots[s].chatId, UsageText, FALSE)
                     ELSE sendTelegramMessage(slots[s].chatId,
                                              ConfirmText(slots[s].firma), TRUE)
          IN  /\ sent' = Append(sent, msg)
              /\ kv' = kv
              /\ Return(s, [slots[s] EXCEPT !.sends = @ + 1], OkResponse, "")
  /\ UNCHANGED <<now, ticks, nreq, issued>>

(***************************************************************************)
(* The notification of the webhook handler (usage error or confirmation)   *)
(* and its return.                                                         *)
(***************************************************************************)
WebhookSend(s, throws) ==
  /\ slots[s].pc \in {"usage", "confirm"}
  /\ IF throws
     THEN /\ Return(s, slots[s], ErrorResponse, "network")
          /\ UNCHANGED sent
     ELSE LET msg == IF slots[s].pc = "usage"
                     THEN sendTelegramMessage(slots[s].chatId, UsageText, FALSE)
                     ELSE sendTelegramMessage(slots[s].chatId,
                                              ConfirmText(slots[s].firma), TRUE)
          IN  /\ sent' = Append(sent, msg)
              /\ Return(s, [slots[s] EXCEPT !.sends = @ + 1], OkResponse, "")
  /\ UNCHANGED <<kv, now, ticks, nreq, issued>>

\* variant: a successful lookup deletes the record it returned
GetChatIdConsume(codigo) ==
  /\ LET resp == handleGetChatId(kv, now, codigo)
     IN  /\ last' = [op |-> "lookup", method |-> "GET", path |-> "/get-chat-id",
                     update |-> NoUpdate, codigo |-> codigo,
                     status |-> resp.status, body |-> resp.body,
                     puts |-> 0, sends |-> 0, read |-> GetChatIdKey(codigo),
                     threw |-> ""]
         /\ kv' = IF resp.status = 200
                  THEN [k \in (DOMAIN kv) \ {GetChatIdKey(codigo)} |-> kv[k]]
                  ELSE kv
  /\ UNCHANGED <<now, ticks, sent, slots, nreq, issued>>

(***************************************************************************)
(* GET /get-chat-id.                                                       *)
(***************************************************************************)
GetChatId(codigo) ==
  /\ LET resp == handleGetChatId(kv, now, codigo)
     IN  last' = [op |-> "lookup", method |-> "GET", path |-> "/get-chat-id",
                  update |-> NoUpdate, codigo |-> codigo,
                  status |-> resp.status, body |-> resp.body,
                  puts |-> 0, sends |-> 0, read |-> GetChatIdKey(codigo),
                  threw |-> ""]
  /\ UNCHANGED <<kv, now, ticks, sent, slots, nreq, issued>>

(***************************************************************************)
(* Any other route or method.                                              *)
(***************************************************************************)
Root(method, path) ==
  /\ fetch(method, path) = "root"
  /\ last' = [op |-> "root", method |-> method, path |-> path,
              update |-> NoUpdate, codigo |-> NoParam,
              status |-> 200, body |-> TextBody("LibrIA Telegram Bot - OK"),
              puts |-> 0, sends |-> 0, read |-> Null, threw |-> ""]
  /\ UNCHANGED <<kv, now, ticks, sent, slots, nreq, issued>>

(***************************************************************************)
(* Time passes.  A key whose expiration is reached is no longer returned   *)
(* by KVget.                                                               *)
(***************************************************************************)
TickSteps == {ExpirationTtl - 1, ExpirationTtl}

Elapse(d, limit) ==
  /\ ticks < limit
  /\ ticks' = ticks + 1
  /\ now' = now + d
  /\ UNCHANGED <<kv, sent, slots, nreq, last, issued>>

Tick(d) == Elapse(d, MaxTicks)

Next ==
  \/ \E s \in Slots, u \in Updates, h \in BOOLEAN : WebhookReceive(s, u, h)
  \/ \E s \in Slots, t \in BOOLEAN : WebhookPut(s, t)
  \/ \E s \in Slots, t \in BOOLEAN : WebhookSend(s, t)
  \/ \E c \in Params : GetChatId(c)
  \/ \E m \in Methods, p \in Paths : Root(m, p)
  \/ \E d \in TickSteps : Tick(d)

Spec == Init /\ [][Next]_vars

(***************************************************************************)
(* Two webhook requests in flight at once, for the issuances that follow   *)
(* or overlap one another: one request for each slot, one clock step more  *)
(* than under Spec, and only the updates that carry an activation code.    *)
(* The requests are interchangeable, so the second slot is taken only      *)
(* while the first is busy.                                                *)
(***************************************************************************)
IssuingUpdates ==
  {u \in Updates : u.chat # NoChat /\ u.text # NoText
                     /\ startsWith(u.text, StartCmd)
                     /\ Len(split(u.text)) >= 2 /\ split(u.text)[2] # << >>}

WebhookReceiveTwo(s, u, hashThrows) ==
  /\ s = 1 \/ slots[1].pc # "idle"
  /\ Receive(s, u, hashThrows, Cardinality(AllSlots))

TickTwo(d) == Elapse(d, MaxTicks + 1)

NextTwo ==
  \/ \E s \in AllSlots, u \in IssuingUpdates, h \in BOOLEAN : WebhookReceiveTwo(s, u, h)
  \/ \E s \in AllSlots, t \in BOOLEAN : WebhookPut(s, t)
  \/ \E s \in AllSlots, t \in BOOLEAN : WebhookSend(s, t)
  \/ \E d \in TickSteps : TickTwo(d)

SpecTwo == Init /\ [][NextTwo]_vars

(***************************************************************************)
(* Properties.                                                             *)
(***************************************************************************)
\* the lookup response in the current state
Lookup(c) == handleGetChatId(kv, now, c)

\* the codes a lookup can be made with
Codes == AllParams \ {NoParam, << >>}

\* some notification m has been sent
InSent(m) == \E n \in 1..Len(sent) : sent[n] = m

\* the successful store writes of the issuances with activation code c,
\* compared without regard to letter case
WritesFor(c) == {i \in issued : i.codigo = toUpperCase(c)}

\* i is the latest successful store write
Latest(i) == \A j \in issued : j = i \/ j.at < i.at

\* the text begins with the command token
BeginsWithCommand(t) ==
  t # NoText /\ Len(t) >= Len(StartCmd) /\ SubSeq(t, 1, Len(StartCmd)) = StartCmd

\* the text is the command token followed by one space and a non-empty
\* activation code
HasActivationCode(t) ==
  /\ BeginsWithCommand(t)
  /\ Len(t) >= Len(StartCmd) + 2
  /\ t[Len(StartCmd) + 1] = " "
  /\ t[Len(StartCmd) + 2] # " "

\* C1: after a valid issuance from chat k whose confirmation carried the
\* verification code v, a lookup with v made next, within the 600 s and with
\* no other issuance in between, returns 200 with chat_id k and the
\* timestamp of that issuance.
C1_IssueThenResolve ==
  \A i \in issued :
    ( /\ i.codigo # << >>
      /\ InSent(sendTelegramMessage(i.chat_id, ConfirmText(i.firma), TRUE))
      /\ Latest(i)
      /\ now < i.at + 600 )
    => Lookup(i.firma) = Response(ChatJson(i.chat_id, i.timestamp), 200)

\* C2: every record of the store is keyed by the verification code of some
\* earlier issuance and holds the chat identifier of that issuance.
C2_KeyedByVerificationCode ==
  \A k \in DOMAIN kv :
    \E i \in issued :
      /\ k = KeyPrefix \o i.firma
      /\ JSONparse(kv[k].value).chat_id = i.chat_id

\* C3: a command without a non-empty activation code ('/start', '/start ',
\* '/start  X') takes no store action: the request never writes to the
\* store, and when nothing throws it is answered 200 after one usage-error
\* notification to the originating chat.
C3_MalformedNoStoreAction ==
  /\ \A s \in Slots :
       slots[s].puts > 0 => HasActivationCode(slots[s].update.text)
  /\ ( /\ last.op = "webhook"
       /\ last.update.json = "message"
       /\ last.update.chat # NoChat
       /\ BeginsWithCommand(last.update.text)
       /\ ~HasActivationCode(last.update.text)
       /\ last.threw = "" )
     => /\ last.status = 200
        /\ last.puts = 0
        /\ last.sends = 1
        /\ sent # << >>
        /\ sent[Len(sent)] = sendTelegramMessage(last.update.chat, UsageText, FALSE)

\* C4: once 600 seconds have passed since the last store write for a code,
\* a lookup for that code returns 404 with the response of a code that was
\* never issued; and a lookup returns a record only between a store write
\* for the code and 600 seconds after it.
C4_Expiry ==
  \A c \in Codes :
    /\ ( /\ WritesFor(c) # {}
         /\ \A i \in WritesFor(c) : i.at + 600 <= now )
       => /\ Lookup(c).status = 404
          /\ Lookup(c) = handleGetChatId(<< >>, 0, c)
    /\ Lookup(c).status = 200
       => \E i \in WritesFor(c) : i.at <= now /\ now < i.at + 600

\* C4 witness: a record was written, exactly 600 seconds have passed, and
\* the lookup for its code has just returned 404.
C4_Witness ==
  /\ last.op = "lookup"
  /\ last.status = 404
  /\ \E i \in WritesFor(last.codigo) : i.at + 600 = now

\* C5: as long as no store write has succeeded for a code, a lookup with
\* that (non-empty) code returns 404 with an error body.
C5_NeverIssued ==
  \A c \in Codes :
    WritesFor(c) = {}
    => Lookup(c) = Response(ErrorJson("Codigo no encontrado"), 404)

\* C5 witness: webhook requests have been handled and a record is stored,
\* and a lookup for a code without any store write has returned 404.
C5_Witness ==
  /\ last.op = "lookup"
  /\ last.codigo \in Codes
  /\ WritesFor(last.codigo) = {}
  /\ last.status = 404
  /\ nreq = MaxWebhooks
  /\ DOMAIN kv # {}

\* a step that answers a lookup
LookupStep == last' # last /\ last'.op = "lookup"

\* C6: a lookup, whatever its outcome, leaves the store and the sent
\* notifications unchanged, and a repetition of the lookup returns the
\* response just given.
C6_ResolverReadOnly ==
  [][ LookupStep
      => /\ last'.status \in {200, 400, 404}
         /\ kv' = kv
         /\ sent' = sent
         /\ handleGetChatId(kv', now', last'.codigo)
              = Response(last'.body, last'.status) ]_vars

\* C6 witness: a lookup has returned 200 and the record is still in the
\* store and still returned.
C6_Witness ==
  /\ last.op = "lookup"
  /\ last.status = 200
  /\ last.read \in DOMAIN kv
  /\ Lookup(last.codigo).status = 200

\* C7: when the parsing of the body, the hash, the store write or the
\* notification call throws, the webhook handler still returns a response,
\* with status 500, and no notification was sent for the request.
C7_WebhookFailure ==
  [][ (last' # last /\ last'.op = "webhook" /\ last'.threw # "")
      => /\ last'.status = 500
         /\ last'.sends = 0
         /\ sent' = sent ]_vars

\* C7 witness: the store write succeeded, the notification call threw and
\* the request was answered 500.
C7_Witness ==
  /\ last.op = "webhook"
  /\ last.threw = "network"
  /\ last.puts = 1
  /\ last.status = 500

\* C8: a lookup without the parameter, or with an empty one, returns 400
\* with an error body in every state of the store, and reads no key.
C8_MissingParameter ==
  /\ \A c \in {NoParam, << >>} :
       /\ Lookup(c) = Response(ErrorJson("Falta parametro: codigo"), 400)
       /\ GetChatIdKey(c) = Null
  /\ (last.op = "lookup" /\ last.codigo \in {NoParam, << >>})
     => /\ last.status = 400
        /\ last.body = ErrorJson("Falta parametro: codigo")
        /\ last.read = Null

\* C8 witness: a lookup with an empty parameter returned 400 while the
\* store holds a live record under the empty activation code.
C8_Witness ==
  /\ last.op = "lookup"
  /\ last.codigo = << >>
  /\ last.status = 400
  /\ KVget(kv, KeyPrefix, now) # Null

\* the update carries no message text, or a text that does not begin with
\* the command
NonCommand(u) ==
  /\ u.json \in {"nomessage", "message"}
  /\ (u.json = "nomessage" \/ ~BeginsWithCommand(u.text))

RECURSIVE CaseVariants(_)
CaseVariants(c) ==
  IF c = << >> THEN {<< >>}
  ELSE {<< x >> \o r : x \in {UpperChar(Head(c)), LowerChar(Head(c))},
                       r \in CaseVariants(Tail(c))}

\* the activation and verification codes, each with its letter-case variants
Variants == [c \in (Codigos \cup Firmas) \ {<< >>} |-> CaseVariants(c)]

\* C10: a lookup with a code and a lookup with any letter-case variant of
\* it return the same response in every state, and every key of the store
\* is in upper case.
C10_CaseInsensitive ==
  /\ \A c \in DOMAIN Variants :
       LET r == Lookup(c) IN \A v \in Variants[c] : Lookup(v) = r
  /\ \A k \in DOMAIN kv : k = KeyPrefix \o toUpperCase(SubSeq(k, Len(KeyPrefix) + 1, Len(k)))

\* C10 witness: a lookup with a lower-case code returned the record written
\* under the upper-case key.
C10_Witness ==
  /\ last.op = "lookup"
  /\ last.codigo = << "a" >>
  /\ last.status = 200
  /\ last.read = KeyPrefix \o << "A" >>
  /\ last.read \in DOMAIN kv


\* the activation code of a command text after uppercase normalization
NormalizedCode(t) == toUpperCase(split(t)[2])

\* the confirmation notification of the issuance i
ConfirmationOf(i) == sendTelegramMessage(i.chat_id, ConfirmText(i.firma), TRUE)

\* C11: any two issuances whose activation codes are equal after uppercase
\* normalization carry the same verification code, whatever their chats,
\* their times and the store were; the same holds for an issuance still
\* waiting to send its confirmation, and every confirmation sent carries
\* the verification code of its issuance.
C11_DeterministicFirma ==
  /\ \A i \in issued : \A j \in issued :
       NormalizedCode(i.text) = NormalizedCode(j.text) => i.firma = j.firma
  /\ \A s \in AllSlots : \A i \in issued :
       (slots[s].pc = "confirm"
          /\ NormalizedCode(i.text) = NormalizedCode(slots[s].update.text))
         => i.firma = slots[s].firma
  /\ \A n \in 1..Len(sent) : \E i \in issued : sent[n] = ConfirmationOf(i)

C11_Witness ==
  \E i \in issued : \E j \in issued :
    /\ i.text # j.text /\ i.chat_id # j.chat_id /\ i.at # j.at
    /\ NormalizedCode(i.text) = NormalizedCode(j.text)
    /\ Len(sent) = 2
    /\ sent[1] = ConfirmationOf(i) /\ sent[2] = ConfirmationOf(j)

\* the request is neither POST /webhook nor GET /get-chat-id
Unmatched(method, path) ==
  /\ ~(method = "POST" /\ path = "/webhook")
  /\ ~(method = "GET" /\ path = "/get-chat-id")

\* a step that answers a request on the catch-all route
RootStep == last' # last /\ last'.op = "root"

\* C12: every request that is neither POST /webhook nor GET /get-chat-id
\* is routed to the catch-all response, and a catch-all step answers 200
\* with the liveness text to such a request and changes neither the store
\* nor the notifications sent.
C12_CatchAll ==
  [][/\ \A m \in Methods : \A p \in Paths :
          Unmatched(m, p) => fetch(m, p) = "root"
     /\ RootStep =>
          /\ Unmatched(last'.method, last'.path)
          /\ last'.status = 200
          /\ last'.body = TextBody("LibrIA Telegram Bot - OK")
          /\ kv' = kv
          /\ sent' = sent]_vars

C12_Witness ==
  /\ last.op = "root"
  /\ last.method = "GET" /\ last.path = "/webhook"
  /\ last.status = 200
  /\ DOMAIN kv # {}
  /\ Len(sent) > 0


\* slot s writes its record in this step
PutStep(s) == slots[s].pc = "put" /\ slots'[s].pc = "confirm"

\* the store entry the issuance i wrote
RecordOf(i) ==
  [value |-> JSONstringify([chat_id |-> i.chat_id, firma |-> i.firma,
                            timestamp |-> i.timestamp]),
   expiration |-> i.at + ExpirationTtl]

\* C13: once a record has been stored under a key, its value and its
\* expiry deadline do not change before it expires, whatever issuances
\* follow or interleave.
C13_WriteOnce ==
  [][\A k \in DOMAIN kv :
       kv[k].expiration > now => (k \in DOMAIN kv' /\ kv'[k] = kv[k])]_vars

\* C13 amended: a record that has not expired stays in the store, and it
\* changes only in the store write of an issuance with the same normalized
\* activation code, which replaces its value and restarts its expiry.
C13_ChangedOnlyByReissue ==
  [][\A k \in DOMAIN kv :
       kv[k].expiration > now =>
         /\ k \in DOMAIN kv'
         /\ \/ kv'[k] = kv[k]
            \/ \E s \in AllSlots :
                 /\ PutStep(s)
                 /\ k = KeyPrefix \o NormalizedCode(slots[s].update.text)
                 /\ kv'[k] = [value |-> PutValue(slots[s], now),
                              expiration |-> now + ExpirationTtl]]_vars

C13_Witness ==
  \E i \in issued : \E j \in issued :
    /\ i.key = j.key /\ i.chat_id # j.chat_id
    /\ i.at < j.at /\ j.at < i.at + ExpirationTtl
    /\ kv[i.key] = RecordOf(j)

\* the lookup response an unexpired or expired record of issuance i gives at
\* time t
LookupOf(i, t) ==
  IF t < i.at + ExpirationTtl
  THEN Response(ChatJson(i.chat_id, i.timestamp), 200)
  ELSE Response(ErrorJson("Codigo no encontrado"), 404)

\* C14: with two issuances handled at once, a store write for one
\* activation code leaves the records of every other code as they are, and
\* the record and the lookup result of a code issued once are those of its
\* own issuance alone, whatever the order of the steps was.
C14_Independent ==
  [][/\ \A s \in AllSlots : \A i \in issued :
          (PutStep(s) /\ i.codigo # NormalizedCode(slots[s].update.text))
            => (i.key \in DOMAIN kv' /\ kv'[i.key] = kv[i.key])
     /\ \A i \in issued' :
          (\A j \in issued' : j.codigo = i.codigo => j = i)
            => /\ (KeyPrefix \o NormalizedCode(i.text)) \in DOMAIN kv'
               /\ kv'[KeyPrefix \o NormalizedCode(i.text)] = RecordOf(i)
               /\ handleGetChatId(kv', now', NormalizedCode(i.text))
                    = LookupOf(i, now')]_vars

C14_Witness ==
  /\ slots[1].pc = "confirm" /\ slots[2].pc = "confirm"
  /\ slots[1].codigo # slots[2].codigo
  /\ PutKey(slots[1]) \in DOMAIN kv /\ PutKey(slots[2]) \in DOMAIN kv
  /\ \E i \in issued : \E j \in issued :
       /\ i.codigo = slots[1].codigo /\ j.codigo = slots[2].codigo
       /\ j.at < i.at


\* slot s returns its response in this step
ReturnStep(s) == slots[s].pc # "idle" /\ slots'[s].pc = "idle"

\* slot s delivers its confirmation in this step
ConfirmStep(s) == slots[s].pc = "confirm" /\ slots'[s].pc = "idle" /\ sent' # sent

\* C15: an issuance that returns 200 has made exactly one store write and
\* sent exactly one notification; the store write is made before anything
\* was sent, and the confirmation is sent only after the record of its own
\* issuance has been written.
C15_WriteThenNotify ==
  [][\A s \in AllSlots :
       /\ (ReturnStep(s) /\ last'.status = 200
             /\ HasActivationCode(last'.update.text))
            => (last'.puts = 1 /\ last'.sends = 1)
       /\ PutStep(s) => (slots[s].puts = 0 /\ slots[s].sends = 0)
       /\ ConfirmStep(s) =>
            /\ slots[s].puts = 1 /\ slots[s].sends = 0
            /\ \E i \in issued :
                 /\ i.text = slots[s].update.text
                 /\ i.chat_id = slots[s].update.chat
                 /\ i.key \in DOMAIN kv
                 /\ sent' = Append(sent, ConfirmationOf(i))]_vars

C15_Witness ==
  /\ last.op = "webhook" /\ last.status = 200
  /\ HasActivationCode(last.update.text)
  /\ last.puts = 1 /\ last.sends = 1
  /\ Len(sent) = 2
  /\ sent[1].chat_id # sent[2].chat_id

\* the last response is the 500 of an issuance whose store write succeeded
\* and whose notification call threw
NotifyFailed == last.op = "webhook" /\ last.threw = "network" /\ last.puts = 1

\* C16: when the confirmation call of an issuance throws after its store
\* write, the handler returns 500 and leaves the store as it is; from then
\* on the record is in the store and a lookup with the activation code
\* returns 200 until the expiry deadline of the record, with the chat of
\* that issuance when nothing else was issued for the code.
C16_NoRollback ==
  [][/\ \A s \in AllSlots :
          (ReturnStep(s) /\ slots[s].pc = "confirm" /\ last'.threw = "network")
            => /\ last'.status = 500
               /\ last'.puts = 1 /\ last'.sends = 0
               /\ kv' = kv /\ sent' = sent
     /\ NotifyFailed' =>
          LET c == NormalizedCode(last'.update.text)
              k == KeyPrefix \o c
          IN  /\ k \in DOMAIN kv'
              /\ now' < kv'[k].expiration
                   => handleGetChatId(kv', now', c).status = 200
              /\ \A i \in issued' :
                   (i.codigo = c /\ \A j \in issued' : j.codigo = c => j = i)
                     => /\ i.chat_id = last'.update.chat
                        /\ handleGetChatId(kv', now', c) = LookupOf(i, now')]_vars

C16_Witness ==
  /\ NotifyFailed /\ last.status = 500
  /\ Len(sent) = 0
  /\ ticks > 0
  /\ \E i \in issued :
       /\ i.chat_id = last.update.chat /\ i.text = last.update.text
       /\ i.at < now
       /\ Lookup(NormalizedCode(last.update.text))
            = Response(ChatJson(i.chat_id, i.timestamp), 200)

\* j is the second of two store writes for one activation code, made before
\* the record of the first write i expired
Reissued(i, j) ==
  /\ i.codigo = j.codigo
  /\ i.at < j.at /\ j.at < i.at + ExpirationTtl
  /\ \A h \in issued : (h.codigo = j.codigo /\ h # j) => h.at < j.at

\* C17: when an activation code is issued from one chat and then, before
\* that record expires, from another, the store holds the second record
\* with an expiry counted from the second write; until then a lookup
\* returns the second chat and the second timestamp, afterwards 404, and
\* no lookup returns the first record.
C17_LastWriterWins ==
  \A i \in issued : \A j \in issued :
    Reissued(i, j) =>
      /\ kv[KeyPrefix \o NormalizedCode(j.text)] = RecordOf(j)
      /\ Lookup(NormalizedCode(j.text)) = LookupOf(j, now)
      /\ i.chat_id # j.chat_id =>
           \A c \in Codes : Lookup(c) # Response(ChatJson(i.chat_id, i.timestamp), 200)

C17_Witness ==
  \E i \in issued : \E j \in issued :
    /\ Reissued(i, j)
    /\ i.chat_id = 1 /\ j.chat_id = 2
    /\ now >= i.at + ExpirationTtl
    /\ Lookup(NormalizedCode(j.text)) = Response(ChatJson(2, j.timestamp), 200)

============================================================================
